---- MODULE Spec2Model ----
(***************************************************************************)
(* A model of the RAG server of src/server.js (and of its earlier version   *)
(* src/unnamed/part_000): chunkText, embedTextsBatch, processText, the      *)
(* chunk store and its snapshot, crawlWebsite, and the ranking of /ask.     *)
(***************************************************************************)
EXTENDS Integers, Sequences, FiniteSets, TLC

VARIABLES
  ckText, ckSize, ckOverlap, ckI, ckChunks, ckPc,  \* one chunkText call
  CHUNKS,      \* the in-memory store (let CHUNKS)
  disk,        \* the snapshot in DATA_FILE
  pc,          \* where each request's handler is suspended
  resp,        \* the response each request has been sent
  kind,        \* the route (or direct call) each request is
  emb,         \* each request's embedTextsBatch call
  provided,    \* every <<text, vector>> the embedding provider has returned
  proc,        \* each request's processText call: text, source, chunks
  loop,        \* /upload-full-website: the page loop's index and totalChunks
  crawl,       \* each request's crawlWebsite call
  arg,         \* the url of the request's body
  site,        \* the web: the page each URL serves
  now,         \* the last value Date.now() returned
  owner,       \* owner[k]: the request and processText call that appended CHUNKS[k]
  made,        \* made[k]: the source, Date.now() and index CHUNKS[k]'s id was made of
  rejected,    \* the processText calls that had an embedding request rejected
  qEmbed,      \* /ask: the question's embedding
  ranked       \* /ask: the ranked list

ckVars == <<ckText, ckSize, ckOverlap, ckI, ckChunks, ckPc>>
storeVars == <<CHUNKS, disk, now, owner, made>>
askVars == <<qEmbed, ranked>>
embVars == <<emb, provided, rejected>>
reqVars == <<pc, kind, resp>>
procVars == <<proc, loop, arg>>
crawlVars == <<crawl, site>>
vars == <<ckVars, storeVars, reqVars, embVars, procVars, crawlVars, askVars>>

Range(f) == { f[x] : x \in DOMAIN f }
Min(a, b) == IF a <= b THEN a ELSE b
Max(a, b) == IF a >= b THEN a ELSE b

(***************************************************************************)
(* Texts.  A JavaScript string is modelled by the document it is a          *)
(* substring of and the half-open range [lo, hi) of that document's         *)
(* characters which it holds: two texts are equal iff they are the same     *)
(* characters of the same document.                                         *)
(***************************************************************************)
MkText(d, n) == [doc |-> d, lo |-> 0, hi |-> n]
TLen(t) == t.hi - t.lo

\* String.prototype.slice: a negative index counts from the end, both indices
\* are clamped to [0, length], and an end before the start gives "".
SliceIndex(k, len) == IF k < 0 THEN Max(len + k, 0) ELSE Min(k, len)
TSlice(t, a, b) ==
  LET from == SliceIndex(a, TLen(t))
      to   == SliceIndex(b, TLen(t))
  IN  [doc |-> t.doc, lo |-> t.lo + from, hi |-> t.lo + Max(from, to)]

(***************************************************************************)
(* chunkText: for (i = 0; i < text.length; i += chunkSize - overlap)        *)
(*              chunks.push(text.slice(i, i + chunkSize))                   *)
(***************************************************************************)
ChunkSize == 1500
ChunkOverlap == 300

ChunkLoopCond(text, i) == i < TLen(text)
ChunkPush(chunks, text, size, i) == Append(chunks, TSlice(text, i, i + size))
ChunkAdvanceNoOverlap(i, size, overlap) == i + size
ChunkAdvance(i, size, overlap) == i + (size - overlap)

\* The whole loop, for the calls whose stride is positive (processText always
\* calls chunkText(text) with the default size and overlap).
RECURSIVE ChunkFrom(_, _, _, _, _)
ChunkFrom(text, size, overlap, i, chunks) ==
  IF ChunkLoopCond(text, i)
  THEN ChunkFrom(text, size, overlap, ChunkAdvance(i, size, overlap),
                 ChunkPush(chunks, text, size, i))
  ELSE chunks
chunkText(text) == ChunkFrom(text, ChunkSize, ChunkOverlap, 0, <<>>)

(***************************************************************************)
(* Requests and responses.                                                  *)
(***************************************************************************)
MaxReqs == 2
Reqs == 1..MaxReqs

NoResp == [status |-> 0, chunks |-> 0, pages |-> 0, sources |-> <<>>]
Reply(code) == [NoResp EXCEPT !.status = code]

\* The state of the parts of the server a specification leaves out.
ChunkOff ==
  /\ ckText = MkText("T", 0) /\ ckSize = 0 /\ ckOverlap = 0
  /\ ckI = 0 /\ ckChunks = <<>> /\ ckPc = "off"
AskOff ==
  /\ qEmbed = [r \in Reqs |-> <<>>]
  /\ ranked = [r \in Reqs |-> <<>>]
NoEmbed ==
  [texts |-> <<>>, batchSize |-> 0, i |-> 0, embeddings |-> <<>>,
   res |-> <<>>, returned |-> <<>>, phase |-> "off"]
NoCrawl ==
  [base |-> <<>>, maxPages |-> 0, visited |-> {}, pages |-> <<>>, inflight |-> {},
   returned |-> FALSE, requested |-> <<>>, failed |-> {}]
NoSite == [u \in {} |-> 0]
CrawlOff ==
  /\ crawl = [r \in Reqs |-> NoCrawl]
  /\ site = NoSite
NoProc == [text |-> MkText("", 0), source |-> <<>>, chunks |-> <<>>, call |-> 0]
NoLoop == [idx |-> 0, totalChunks |-> 0]
EmbedOff ==
  /\ emb = [r \in Reqs |-> NoEmbed]
  /\ provided = {}
  /\ rejected = {}
ProcOff ==
  /\ proc = [r \in Reqs |-> NoProc]
  /\ loop = [r \in Reqs |-> NoLoop]
  /\ arg = [r \in Reqs |-> <<>>]
StoreEmpty ==
  /\ CHUNKS = <<>> /\ disk = <<>> /\ now = 0 /\ owner = <<>> /\ made = <<>>
ReqsIdle ==
  /\ pc = [r \in Reqs |-> "idle"]
  /\ kind = [r \in Reqs |-> "none"]
  /\ resp = [r \in Reqs |-> NoResp]
ServerOff ==
  /\ StoreEmpty
  /\ ReqsIdle
  /\ EmbedOff
  /\ ProcOff
  /\ CrawlOff
  /\ AskOff

(***************************************************************************)
(* One chunkText(text, chunkSize, overlap) call, an iteration at a time.    *)
(* The model follows a call for at most ChunkCap iterations; a call whose   *)
(* stride is positive needs at most text.length of them.                    *)
(***************************************************************************)
MaxLen == 5
MaxSize == 3
ChunkCap == MaxLen + 2

ChunkInputs ==
  { <<MkText("T", n), s, o>> : n \in 0..MaxLen, s \in 0..MaxSize, o \in 0..MaxSize }
  \cup { <<MkText("A", 1200), 500, 100>> }

ChunkInit ==
  /\ ServerOff
  /\ \E inp \in ChunkInputs :
        /\ ckText = inp[1]
        /\ ckSize = inp[2]
        /\ ckOverlap = inp[3]
  /\ ckI = 0
  /\ ckChunks = <<>>
  /\ ckPc = "loop"

ChunkStep ==
  /\ ckPc = "loop"
  /\ ChunkLoopCond(ckText, ckI)
  /\ Len(ckChunks) < ChunkCap
  /\ ckChunks' = ChunkPush(ckChunks, ckText, ckSize, ckI)
  /\ ckI' = ChunkAdvance(ckI, ckSize, ckOverlap)
  /\ UNCHANGED <<ckText, ckSize, ckOverlap, ckPc>>
  /\ UNCHANGED <<storeVars, reqVars, embVars, procVars, crawlVars, askVars>>

ChunkReturn ==
  /\ ckPc = "loop"
  /\ ~ChunkLoopCond(ckText, ckI)
  /\ ckPc' = "done"
  /\ UNCHANGED <<ckText, ckSize, ckOverlap, ckI, ckChunks>>
  /\ UNCHANGED <<storeVars, reqVars, embVars, procVars, crawlVars, askVars>>

ChunkNext == ChunkStep \/ ChunkReturn

\* The loop is synchronous code: while it can take a step, it does.
ChunkSpec == ChunkInit /\ [][ChunkNext]_vars /\ WF_vars(ChunkNext)

(***************************************************************************)
(* cosineSimilarity and the ranking of /ask.  Vectors are tuples of         *)
(* integers whose Euclidean norm is an integer, so that Math.sqrt, the      *)
(* product of the norms and the order of the quotients are exact.  A score  *)
(* is the quotient num/den; 0/0 is NaN.                                     *)
(***************************************************************************)
RECURSIVE SumProd(_, _, _)
SumProd(a, b, i) == IF i > Len(a) THEN 0 ELSE a[i] * b[i] + SumProd(a, b, i + 1)
Sqrt(n) == CHOOSE k \in 0..n : k * k = n

cosineSimilarity(a, b) ==
  LET dot  == SumProd(a, b, 1)
      magA == Sqrt(SumProd(a, a, 1))
      magB == Sqrt(SumProd(b, b, 1))
  IN  [num |-> dot, den |-> magA * magB]

IsNaN(s) == s.den = 0
Sign(n) == IF n > 0 THEN 1 ELSE IF n < 0 THEN -1 ELSE 0
\* The sign of x - y for two scores that are numbers (the norms are >= 0).
ScoreDiffSign(x, y) == Sign(x.num * y.den - y.num * x.den)

\* (a, b) => b.score - a.score, as Array.prototype.sort reads it: a NaN
\* result counts as +0.
CompareRanked(a, b) ==
  IF IsNaN(a.score) \/ IsNaN(b.score) THEN 0 ELSE ScoreDiffSign(b.score, a.score)

\* Array.prototype.sort is stable: an element goes after every element that
\* the comparator does not put after it.  (With a comparator that is not
\* consistent, which a NaN score makes it, ECMAScript leaves the order to the
\* engine; this is the order a stable insertion gives.)
Front(s) == SubSeq(s, 1, Len(s) - 1)
RECURSIVE InsertRanked(_, _)
InsertRanked(s, x) ==
  IF s = <<>> \/ CompareRanked(s[Len(s)], x) <= 0
  THEN Append(s, x)
  ELSE Append(InsertRanked(Front(s), x), s[Len(s)])
RECURSIVE SortRanked(_, _)
SortRanked(done, rest) ==
  IF rest = <<>> THEN done
  ELSE SortRanked(InsertRanked(done, Head(rest)), Tail(rest))

TopK == 5
WithScore(c, q) ==
  [id |-> c.id, text |-> c.text, embedding |-> c.embedding,
   score |-> cosineSimilarity(q, c.embedding)]
Rank(chunks, q) ==
  LET scored == [k \in 1..Len(chunks) |-> WithScore(chunks[k], q)]
      sorted == SortRanked(<<>>, scored)
  IN  SubSeq(sorted, 1, Min(TopK, Len(sorted)))

(***************************************************************************)
(* embedTextsBatch(texts, batchSize).  A call's frame holds the loop        *)
(* variable i (0-based), the embeddings collected so far, and res: the      *)
(* results of the current sub-batch's requests, in the order of the batch   *)
(* (what Promise.all resolves with), <<>> while a request is in flight.     *)
(* returned[k] records the vector the provider returned for texts[k].      *)
(***************************************************************************)
BatchSize == 50

Pending(x) == x = <<>>
BatchSlice(texts, i, batchSize) == SubSeq(texts, i + 1, Min(i + batchSize, Len(texts)))

\* const batch = texts.slice(i, i + batchSize); batch.map(... create ...)
IssueAll(e) ==
  [e EXCEPT !.res = [k \in 1..(Len(e.texts) - e.i) |-> <<>>],
            !.phase = "batch"]
IssueBatch(e) ==
  [e EXCEPT !.res = [k \in 1..Len(BatchSlice(e.texts, e.i, e.batchSize)) |-> <<>>],
            !.phase = "batch"]

EmbedBegin(texts, batchSize) ==
  LET e == [texts |-> texts, batchSize |-> batchSize, i |-> 0, embeddings |-> <<>>,
            res |-> <<>>, returned |-> [k \in 1..Len(texts) |-> <<>>],
            phase |-> "off"]
  IN  IF 0 < Len(texts) THEN IssueBatch(e) ELSE [e EXCEPT !.phase = "done"]

\* embeddings.push(...res.map((r) => r.data[0].embedding))
PushResultsOverwrite(embeddings, res) == res
PushResults(embeddings, res) == embeddings \o res

\* The k-th request of the sub-batch resolves with v.  When it is the last one
\* in flight, Promise.all resolves: the results are pushed and the pause starts.
EmbedOnResolve(e, k, v) ==
  LET res2 == [e.res EXCEPT ![k] = v]
      e1   == [e EXCEPT !.res = res2, !.returned[e.i + k] = v]
  IN  IF \A j \in 1..Len(res2) : ~Pending(res2[j])
      THEN [e1 EXCEPT !.embeddings = PushResults(e.embeddings, res2),
                      !.phase = "pause"]
      ELSE e1

\* A request rejects: Promise.all rejects and the call throws.
EmbedOnRejectSwallow(e) ==
  [e EXCEPT !.embeddings = PushResults(e.embeddings, e.res), !.phase = "pause"]
EmbedOnReject(e) == [e EXCEPT !.phase = "failed"]

\* The 50 ms timer fires: i += batchSize, then the loop test.
EmbedOnPause(e) ==
  LET e1 == [e EXCEPT !.i = e.i + e.batchSize]
  IN  IF e1.i < Len(e1.texts) THEN IssueBatch(e1) ELSE [e1 EXCEPT !.phase = "done"]

(***************************************************************************)
(* URLs are sequences of tokens: "s" and "t" stand for the scheme and host  *)
(* of two sites ("http://s", "http://t"), the other tokens are single       *)
(* characters.  An href is such a sequence too and may hold "#".            *)
(***************************************************************************)
Hosts == {"s", "t"}

StartsWith(u, p) == Len(p) <= Len(u) /\ SubSeq(u, 1, Len(p)) = p

SetMin(S) == CHOOSE x \in S : \A y \in S : x <= y
SetMax(S) == CHOOSE x \in S : \A y \in S : x >= y

\* link.split("#")[0]
SplitHash(h) ==
  LET at == { k \in 1..Len(h) : h[k] = "#" }
  IN  IF at = {} THEN h ELSE SubSeq(h, 1, SetMin(at) - 1)

\* url.resolve(from, to): an absolute to is taken as it is, a to that starts
\* with "/" keeps from's host, any other to replaces what follows from's last
\* "/", and an empty to gives from without its fragment.  A URL with no path
\* gets the path "/".
WithPath(u) == IF Len(u) = 1 THEN u \o <<"/">> ELSE u
DirOf(u) ==
  LET at == { k \in 1..Len(u) : u[k] = "/" }
  IN  IF at = {} THEN u \o <<"/">> ELSE SubSeq(u, 1, SetMax(at))
UrlResolve(from, to) ==
  LET b == SplitHash(from)
  IN  IF to = <<>> THEN WithPath(b)
      ELSE IF to[1] \in Hosts THEN WithPath(to)
      ELSE IF to[1] = "/" THEN <<b[1]>> \o to
      ELSE DirOf(b) \o to

(***************************************************************************)
(* crawlWebsite(baseUrl, visited, maxPages).  A crawl's frame holds the     *)
(* visited set, the pages list, the URLs whose axios.get is outstanding,    *)
(* whether the promise of crawlWebsite has resolved, and two records of     *)
(* what happened: every URL requested, in order, and the URLs whose fetch   *)
(* failed.                                                                  *)
(***************************************************************************)
MaxPagesDefault == 100

\* crawl(url) up to its await:
\*   if (visited.has(url) || pages.length >= maxPages) return;
\*   visited.add(url); ... await axios.get(url)
CrawlGuardNoVisited(c, url) == Len(c.pages) >= c.maxPages
CrawlGuard(c, url) == url \in c.visited \/ Len(c.pages) >= c.maxPages
CrawlEnter(c, url) ==
  IF CrawlGuard(c, url) THEN c
  ELSE [c EXCEPT !.visited = @ \cup {url},
                 !.inflight = @ \cup {url},
                 !.requested = Append(@, url)]

\* if (resolved.startsWith(baseUrl)) crawl(resolved)
InScope(base, resolved) == StartsWith(resolved, base)

\* The body of $("a[href]").each((i, el) => ...) for one link:
\*   if (!link) return;
\*   const resolved = urlModule.resolve(baseUrl, link.split("#")[0]);
\*   if (resolved.startsWith(baseUrl)) crawl(resolved);
FollowLink(c, link) ==
  LET resolved == UrlResolve(c.base, SplitHash(link))
  IN  IF link # <<>> /\ InScope(c.base, resolved) THEN CrawlEnter(c, resolved) ELSE c

\* $("a[href]").each(...): the links of a page, in document order.  (The frame
\* after each link is bound as a value before the next link is read.)
RECURSIVE ExpandLinks(_, _)
ExpandLinks(c, links) ==
  IF links = <<>> THEN c
  ELSE CHOOSE out \in { ExpandLinks(c1, Tail(links)) :
                          c1 \in { FollowLink(c, Head(links)) } } : TRUE

\* The rest of crawl(url) once axios.get has resolved with the page.
PushPage(pages, url, text) ==
  IF TLen(text) > 0 THEN Append(pages, [url |-> url, text |-> text]) ELSE pages
CrawlOnPage(c, url, page) ==
  LET c1 == [c EXCEPT !.inflight = @ \ {url},
                      !.pages = PushPage(@, url, page.text)]
  IN  ExpandLinks(c1, page.links)

\* The crawl(baseUrl) call that crawlWebsite awaits is the one that fetches
\* baseUrl; when it has run to its end, crawlWebsite returns pages.
IsRootCall(c, url) == url = c.base /\ ~c.returned

\* axios.get rejected: the catch block logs it.
CrawlOnErrorAbort(c, url) ==
  [c EXCEPT !.inflight = {}, !.failed = @ \cup {url}, !.pages = <<>>]
CrawlOnError(c, url) ==
  [c EXCEPT !.inflight = @ \ {url}, !.failed = @ \cup {url}]

\* crawlWebsite: const pages = []; await crawl(baseUrl); return pages
CrawlBegin(baseUrl, maxPages) ==
  LET c == CrawlEnter([NoCrawl EXCEPT !.base = baseUrl, !.maxPages = maxPages],
                      baseUrl)
  IN  [c EXCEPT !.returned = (c.inflight = {})]

(***************************************************************************)
(* POST /ask.  The handler is suspended at the question's embedding request *)
(* and at the completion request.                                           *)
(***************************************************************************)
AskStart(r, hasQuestion) ==
  /\ pc[r] = "idle"
  /\ kind' = [kind EXCEPT ![r] = "ask"]
  /\ IF ~hasQuestion \/ Len(CHUNKS) = 0
     THEN /\ pc' = [pc EXCEPT ![r] = "done"]
          /\ resp' = [resp EXCEPT ![r] = Reply(400)]
     ELSE /\ pc' = [pc EXCEPT ![r] = "askEmbed"]
          /\ UNCHANGED resp
  /\ UNCHANGED <<ckVars, storeVars, embVars, procVars, crawlVars, askVars>>

AskEmbedded(r, v) ==
  /\ pc[r] = "askEmbed"
  /\ qEmbed' = [qEmbed EXCEPT ![r] = v]
  /\ ranked' = [ranked EXCEPT ![r] = Rank(CHUNKS, v)]
  /\ pc' = [pc EXCEPT ![r] = "askChat"]
  /\ UNCHANGED <<ckVars, storeVars, embVars, procVars, crawlVars, kind, resp>>

AskAnswered(r) ==
  /\ pc[r] = "askChat"
  /\ pc' = [pc EXCEPT ![r] = "done"]
  /\ resp' = [resp EXCEPT ![r] =
        [Reply(200) EXCEPT !.sources = [k \in 1..Len(ranked[r]) |-> ranked[r][k].id]]]
  /\ UNCHANGED <<ckVars, storeVars, embVars, procVars, crawlVars, askVars, kind>>

\* The embedding request or the completion request fails: the catch block.
AskFailed(r) ==
  /\ pc[r] \in {"askEmbed", "askChat"}
  /\ pc' = [pc EXCEPT ![r] = "done"]
  /\ resp' = [resp EXCEPT ![r] = Reply(500)]
  /\ UNCHANGED <<ckVars, storeVars, embVars, procVars, crawlVars, askVars, kind>>

(***************************************************************************)
(* processText(text, source) and the handlers that call it.                 *)
(***************************************************************************)
MaxClock == 1

Respond(r, rp) ==
  /\ pc' = [pc EXCEPT ![r] = "done"]
  /\ resp' = [resp EXCEPT ![r] = rp]

\* `${source}_${Date.now()}_${i}`: a string is a sequence of tokens, as a URL
\* is; the two numbers are written in decimal digits.  A route's source label
\* ("TXT", "website", "file") is one token, a page's is its URL.
Digit(n) == <<"0", "1", "2", "3", "4", "5", "6", "7", "8", "9">>[n + 1]
RECURSIVE Digits(_)
Digits(n) == IF n < 10 THEN <<Digit(n)>> ELSE Digits(n \div 10) \o <<Digit(n % 10)>>
FormatIdNoIndex(source, stamp, i) == source \o <<"_">> \o Digits(stamp)
FormatId(source, stamp, i) ==
  source \o <<"_">> \o Digits(stamp) \o <<"_">> \o Digits(i)
MadeOf(source, stamp, i) == [source |-> source, stamp |-> stamp, index |-> i]

\* text.trim() is empty: the text is empty or holds only whitespace (the
\* texts of document "W" do).
IsBlank(t) == TLen(t) = 0 \/ t.doc = "W"

\* const chunks = chunkText(text); ... await embedTextsBatch(chunks, 50)
ProcBegin(text, source, call) ==
  [text |-> text, source |-> source, chunks |-> chunkText(text), call |-> call]

\* chunks.map((chunk, i) => ({ id: `${source}_${Date.now()}_${i}`, text: chunk,
\*                             embedding: embeddings[i] }))
\* stamps[k] is what Date.now() returns for the k-th chunk; an index past the
\* end of embeddings reads undefined (<<>>).
EmbeddingAt(embeddings, k) == IF k <= Len(embeddings) THEN embeddings[k] ELSE <<>>
Processed(p, embeddings, stamps) ==
  [k \in 1..Len(p.chunks) |->
     [id |-> FormatId(p.source, stamps[k], k - 1), text |-> p.chunks[k],
      embedding |-> EmbeddingAt(embeddings, k)]]
Stamps(n) ==
  { st \in [1..n -> now..MaxClock] : \A j, k \in 1..n : j <= k => st[j] <= st[k] }

\* What the handler of r does once processText has returned n; e is the frame
\* of the embedTextsBatch call that has just returned.
AfterProcess(r, n, e) ==
  IF kind[r] = "full"
  THEN LET total == loop[r].totalChunks + n
           next  == loop[r].idx + 1
           pages == crawl[r].pages
       IN  /\ loop' = [loop EXCEPT ![r] = [idx |-> next, totalChunks |-> total]]
           /\ IF next < Len(pages)
              THEN \* the next page of for (const page of pages): a page record's
                   \* text is not empty, so neither is its list of chunks
                   LET p == ProcBegin(pages[next + 1].text, pages[next + 1].url, next)
                   IN  /\ proc' = [proc EXCEPT ![r] = p]
                       /\ emb' = [emb EXCEPT ![r] = EmbedBegin(p.chunks, BatchSize)]
                       /\ UNCHANGED <<pc, resp>>
              ELSE /\ Respond(r, [Reply(200) EXCEPT !.pages = Len(pages),
                                                    !.chunks = total])
                   /\ emb' = [emb EXCEPT ![r] = e]
                   /\ UNCHANGED proc
  ELSE /\ Respond(r, [Reply(200) EXCEPT !.chunks = n])
       /\ emb' = [emb EXCEPT ![r] = e]
       /\ UNCHANGED <<proc, loop>>

\* saveChunks: DATA_FILE holds JSON.stringify(CHUNKS), the whole store.  What
\* JSON.parse reads back is the chunk itself, its id and text being strings
\* and its embedding an array of numbers, but for an embedding that is
\* undefined, which JSON.stringify leaves out.
JsonChunk(c) == IF c.embedding = <<>> THEN [id |-> c.id, text |-> c.text] ELSE c
saveChunksLast(chunks) ==
  IF chunks = <<>> THEN <<>> ELSE <<JsonChunk(chunks[Len(chunks)])>>
saveChunks(chunks) == [k \in 1..Len(chunks) |-> JsonChunk(chunks[k])]

\* CHUNKS.push(...processed)
StorePushFront(chunks, processed) == processed \o chunks
StorePush(chunks, processed) == chunks \o processed

\* embedTextsBatch has returned e.embeddings to processText:
\*   CHUNKS.push(...processed); saveChunks(); return processed.length
FinishProcess(r, e) ==
  \E stamps \in Stamps(Len(proc[r].chunks)) :
    LET processed == Processed(proc[r], e.embeddings, stamps)
        n         == Len(processed)
    IN  /\ CHUNKS' = StorePush(CHUNKS, processed)
        /\ disk' = saveChunks(CHUNKS')
        /\ owner' = owner \o [k \in 1..n |-> <<r, proc[r].call>>]
        /\ made' = made \o [k \in 1..n |-> MadeOf(proc[r].source, stamps[k], k - 1)]
        /\ now' = IF n > 0 THEN stamps[n] ELSE now
        /\ AfterProcess(r, n, e)

\* The embedTextsBatch call of r moves to frame e.  A finished call returns to
\* its caller; a failed one throws, through processText, into the handler's
\* catch block (status 500).  kind "embedcall" is a direct call of
\* embedTextsBatch.
Settle(r, e) ==
  CASE e.phase = "done" /\ kind[r] # "embedcall" -> FinishProcess(r, e)
    [] e.phase = "done" /\ kind[r] = "embedcall" ->
         /\ emb' = [emb EXCEPT ![r] = e]
         /\ Respond(r, [Reply(200) EXCEPT !.chunks = Len(e.embeddings)])
         /\ UNCHANGED <<storeVars, proc, loop>>
    [] e.phase = "failed" ->
         /\ emb' = [emb EXCEPT ![r] = e]
         /\ Respond(r, Reply(500))
         /\ UNCHANGED <<storeVars, proc, loop>>
    [] OTHER ->
         /\ emb' = [emb EXCEPT ![r] = e]
         /\ UNCHANGED <<storeVars, proc, loop, pc, resp>>

\* The provider answers the k-th request of the current sub-batch with v.
EmbedResolved(r, k, v) ==
  /\ emb[r].phase = "batch"
  /\ k \in 1..Len(emb[r].res)
  /\ Pending(emb[r].res[k])
  /\ provided' = provided \cup {<<emb[r].texts[emb[r].i + k], v>>}
  /\ Settle(r, EmbedOnResolve(emb[r], k, v))
  /\ UNCHANGED <<ckVars, kind, rejected, arg, crawlVars, askVars>>

\* The provider fails the k-th request of the current sub-batch.
EmbedRejected(r, k) ==
  /\ emb[r].phase = "batch"
  /\ k \in 1..Len(emb[r].res)
  /\ Pending(emb[r].res[k])
  /\ rejected' = rejected \cup {<<r, proc[r].call>>}
  /\ Settle(r, EmbedOnReject(emb[r]))
  /\ UNCHANGED <<ckVars, kind, provided, arg, crawlVars, askVars>>

\* The pause after a sub-batch ends.
EmbedPaused(r) ==
  /\ emb[r].phase = "pause"
  /\ Settle(r, EmbedOnPause(emb[r]))
  /\ UNCHANGED <<ckVars, kind, provided, rejected, arg, crawlVars, askVars>>

\* POST /upload-file: no file or an unsupported type is a 400, and so is a
\* text that trims to nothing; else processText(text, ext.toUpperCase()).
UploadFile(r, up) ==
  /\ pc[r] = "idle"
  /\ kind' = [kind EXCEPT ![r] = "file"]
  /\ IF ~up.file \/ IsBlank(up.text)
     THEN /\ Respond(r, Reply(400))
          /\ UNCHANGED <<proc, emb>>
     ELSE LET p == ProcBegin(up.text, <<"TXT">>, 0)
          IN  /\ proc' = [proc EXCEPT ![r] = p]
              /\ emb' = [emb EXCEPT ![r] = EmbedBegin(p.chunks, BatchSize)]
              /\ pc' = [pc EXCEPT ![r] = "embedding"]
              /\ UNCHANGED resp
  /\ UNCHANGED <<ckVars, storeVars, provided, rejected, loop, arg, crawlVars, askVars>>

\* POST /upload-website: await axios.get(url)
UploadWebsite(r, url) ==
  /\ pc[r] = "idle"
  /\ kind' = [kind EXCEPT ![r] = "website"]
  /\ arg' = [arg EXCEPT ![r] = url]
  /\ IF url = <<>>
     THEN Respond(r, Reply(400))
     ELSE pc' = [pc EXCEPT ![r] = "fetching"] /\ UNCHANGED resp
  /\ UNCHANGED <<ckVars, storeVars, embVars, proc, loop, crawlVars, askVars>>

\* The page arrives; page.body is $("body").text(), collapsed and trimmed.
WebsiteFetched(r) ==
  /\ pc[r] = "fetching"
  /\ arg[r] \in DOMAIN site
  /\ IF TLen(site[arg[r]].body) = 0
     THEN /\ Respond(r, Reply(400))
          /\ UNCHANGED <<proc, emb>>
     ELSE LET p == ProcBegin(site[arg[r]].body, <<"website">>, 0)
          IN  /\ proc' = [proc EXCEPT ![r] = p]
              /\ emb' = [emb EXCEPT ![r] = EmbedBegin(p.chunks, BatchSize)]
              /\ pc' = [pc EXCEPT ![r] = "embedding"]
              /\ UNCHANGED resp
  /\ UNCHANGED <<ckVars, storeVars, kind, provided, rejected, loop, arg, crawlVars,
                 askVars>>

WebsiteFetchFailed(r) ==
  /\ pc[r] = "fetching"
  /\ Respond(r, Reply(500))
  /\ UNCHANGED <<ckVars, storeVars, kind, embVars, procVars, crawlVars, askVars>>

\* POST /upload-full-website: await crawlWebsite(url, new Set(), 100)
UploadFull(r, url) ==
  /\ pc[r] = "idle"
  /\ kind' = [kind EXCEPT ![r] = "full"]
  /\ arg' = [arg EXCEPT ![r] = url]
  /\ IF url = <<>>
     THEN /\ Respond(r, Reply(400))
          /\ UNCHANGED crawl
     ELSE /\ crawl' = [crawl EXCEPT ![r] = CrawlBegin(url, MaxPagesDefault)]
          /\ pc' = [pc EXCEPT ![r] = "crawling"]
          /\ UNCHANGED resp
  /\ UNCHANGED <<ckVars, storeVars, embVars, proc, loop, site, askVars>>

\* crawlWebsite returns the pages of frame c to its caller.  kind "crawlcall"
\* is a direct call of crawlWebsite; /upload-full-website answers 400 when there
\* is no page and else starts the loop over pages with the first one.
CrawlReturned(r, c) ==
  IF kind[r] = "full" /\ Len(c.pages) > 0
  THEN LET p == ProcBegin(c.pages[1].text, c.pages[1].url, 0)
       IN  /\ loop' = [loop EXCEPT ![r] = NoLoop]
           /\ proc' = [proc EXCEPT ![r] = p]
           /\ emb' = [emb EXCEPT ![r] = EmbedBegin(p.chunks, BatchSize)]
           /\ pc' = [pc EXCEPT ![r] = "embedding"]
           /\ UNCHANGED resp
  ELSE /\ Respond(r, IF kind[r] = "full" THEN Reply(400)
                     ELSE [Reply(200) EXCEPT !.pages = Len(c.pages)])
       /\ UNCHANGED <<proc, loop, emb>>

\* axios.get(url) resolves for a crawl of r, which may have returned already.
FetchOk(r, url) ==
  /\ url \in crawl[r].inflight
  /\ url \in DOMAIN site
  /\ LET root == IsRootCall(crawl[r], url)
     IN  \E c \in { [CrawlOnPage(crawl[r], url, site[url]) EXCEPT !.returned = @ \/ root] } :
           /\ crawl' = [crawl EXCEPT ![r] = c]
           /\ IF root THEN CrawlReturned(r, c)
              ELSE UNCHANGED <<proc, loop, emb, pc, resp>>
  /\ UNCHANGED <<ckVars, storeVars, kind, provided, rejected, arg, site, askVars>>

\* axios.get(url) rejects (the network, or a URL the site does not serve).
FetchErr(r, url) ==
  /\ url \in crawl[r].inflight
  /\ LET root == IsRootCall(crawl[r], url)
     IN  \E c \in { [CrawlOnError(crawl[r], url) EXCEPT !.returned = @ \/ root] } :
           /\ crawl' = [crawl EXCEPT ![r] = c]
           /\ IF root THEN CrawlReturned(r, c)
              ELSE UNCHANGED <<proc, loop, emb, pc, resp>>
  /\ UNCHANGED <<ckVars, storeVars, kind, provided, rejected, arg, site, askVars>>

(***************************************************************************)
(* The embedding specification: one direct call embedTextsBatch(texts,      *)
(* batchSize) on n distinct texts.                                          *)
(***************************************************************************)
MaxTexts == 4
MaxBatch == 3
EmbedVectors == { <<1, 0>>, <<0, 1>> }

DirectCall(r, k, rp, done) ==
  /\ pc = [q \in Reqs |-> IF q = r THEN (IF done THEN "done" ELSE "calling") ELSE "idle"]
  /\ kind = [q \in Reqs |-> IF q = r THEN k ELSE "none"]
  /\ resp = [q \in Reqs |-> IF q = r /\ done THEN rp ELSE NoResp]

EmbedInit ==
  /\ ChunkOff /\ StoreEmpty /\ ProcOff /\ CrawlOff /\ AskOff
  /\ provided = {} /\ rejected = {}
  /\ \E n \in 0..MaxTexts, bs \in 1..MaxBatch :
        LET e == EmbedBegin([k \in 1..n |-> MkText("E", k)], bs)
        IN  /\ emb = [r \in Reqs |-> IF r = 1 THEN e ELSE NoEmbed]
            /\ DirectCall(1, "embedcall", Reply(200), e.phase = "done")

EmbedNext ==
  \/ \E k \in 1..MaxBatch, v \in EmbedVectors : EmbedResolved(1, k, v)
  \/ \E k \in 1..MaxBatch : EmbedRejected(1, k)
  \/ EmbedPaused(1)

EmbedSpec == EmbedInit /\ [][EmbedNext]_vars

(***************************************************************************)
(* The crawl specification: one direct call crawlWebsite(baseUrl, new       *)
(* Set(), maxPages) on one of a few small sites.                            *)
(***************************************************************************)
MaxPages == 3

Page(d, n, links) == [text |-> MkText(d, n), body |-> MkText(d, n), links |-> links]
Root == <<"s", "/">>
Url(x) == <<"s", "/", x>>

\* "/" links to a (twice, once with a fragment), to /b, to another host, to its
\* own fragment, and holds an empty href; a links back to "/" and to b#y.
SiteCycle ==
  (Root :> Page("root", 1200,
                << <<"a">>, <<"a", "#", "x">>, <<"/", "b">>, <<"t", "/">>,
                   <<"#", "x">>, <<>> >>))
  @@ (Url("a") :> Page("a", 1200, << <<"s", "/">>, <<"b", "#", "y">> >>))
  @@ (Url("b") :> Page("b", 1200, <<>>))

\* "/" links to a, b, c and d; b has no text and d is not served.
SiteFan ==
  (Root :> Page("root", 1200, << <<"a">>, <<"b">>, <<"c">>, <<"d">> >>))
  @@ (Url("a") :> Page("a", 1200, <<>>))
  @@ (Url("b") :> Page("b", 0, << <<"/">> >>))
  @@ (Url("c") :> Page("c", 1200, << <<"/", "a">> >>))

\* http://s/a links to ab (http://s/ab, which starts with the base), to /b
\* (which does not) and to http://t/a.
SitePrefix ==
  (Url("a") :> Page("a", 1200, << <<"a", "b">>, <<"/", "b">>, <<"t", "/", "a">> >>))
  @@ (<<"s", "/", "a", "b">> :> Page("ab", 1200, << <<"a">> >>))
  @@ (Url("b") :> Page("b", 1200, <<>>))

\* The base is given without a path: http://s and http://s/ are one page.
SiteBare ==
  (<<"s">> :> Page("root", 1200, << <<"#", "top">>, <<"a">> >>))
  @@ (Root :> Page("root", 1200, << <<"#", "top">>, <<"a">> >>))
  @@ (Url("a") :> Page("a", 1200, << <<"/">> >>))

\* "/" links to d/e; the page http://s/d/e holds the relative link f, which a
\* browser reads as http://s/d/f.  The site serves http://s/f as well.
SiteNested ==
  (Root :> Page("root", 1200, << <<"d", "/", "e">> >>))
  @@ (<<"s", "/", "d", "/", "e">> :> Page("e", 1200, << <<"f">> >>))
  @@ (<<"s", "/", "d", "/", "f">> :> Page("df", 1200, <<>>))
  @@ (Url("f") :> Page("f", 1200, <<>>))

CrawlInputs ==
  { <<SiteCycle, Root>>, <<SiteFan, Root>>, <<SitePrefix, Url("a")>>,
    <<SiteBare, <<"s">> >>, <<SiteNested, Root>> }

CrawlInit ==
  /\ ChunkOff /\ StoreEmpty /\ EmbedOff /\ ProcOff /\ AskOff
  /\ \E inp \in CrawlInputs, n \in 0..MaxPages :
        LET c == CrawlBegin(inp[2], n)
        IN  /\ site = inp[1]
            /\ crawl = [r \in Reqs |-> IF r = 1 THEN c ELSE NoCrawl]
            /\ DirectCall(1, "crawlcall", Reply(200), c.returned)

CrawlNext ==
  \/ \E url \in DOMAIN site : FetchOk(1, url)
  \/ \E url \in crawl[1].inflight : FetchErr(1, url)

\* Every axios.get settles: it resolves or it rejects.
CrawlSpec == CrawlInit /\ [][CrawlNext]_vars /\ WF_vars(CrawlNext)

(***************************************************************************)
(* The server: requests arrive in the order of their numbers and run        *)
(* interleaved; DATA_FILE does not exist when the server starts.            *)
(***************************************************************************)
\* "/" and a link to each other; a also links to its own fragment.
SiteSmall ==
  (Root :> Page("root", 1200, << <<"a">>, <<"a", "#", "x">> >>))
  @@ (Url("a") :> Page("a", 1200, << <<"/">>, <<"#", "x">> >>))

\* An upload with no file (or one of an unsupported type), and files whose text
\* is empty, whitespace, one chunk long and two chunks long.
FileInputs ==
  { [file |-> FALSE, text |-> MkText("", 0)] }
  \cup { [file |-> TRUE, text |-> t] :
           t \in { MkText("F", 0), MkText("W", 3), MkText("F", 1200), MkText("G", 1201) } }
WebsiteInputs == { <<>>, Url("a"), Url("z") }
FullInputs == { <<>>, Root }

Arrived(r) == pc[r] # "idle"
MayArrive(r) == \A q \in Reqs : q < r => Arrived(q)

Init ==
  /\ ChunkOff /\ StoreEmpty /\ ReqsIdle /\ EmbedOff /\ ProcOff /\ AskOff
  /\ crawl = [r \in Reqs |-> NoCrawl]
  /\ site = SiteSmall

\* The steps of an ingestion request: the three routes, and the completions of
\* what their handlers await.
IngestStep(r) ==
  \/ MayArrive(r) /\ \E up \in FileInputs : UploadFile(r, up)
  \/ MayArrive(r) /\ \E url \in WebsiteInputs : UploadWebsite(r, url)
  \/ MayArrive(r) /\ \E url \in FullInputs : UploadFull(r, url)
  \/ WebsiteFetched(r)
  \/ WebsiteFetchFailed(r)
  \/ \E url \in DOMAIN site : FetchOk(r, url)
  \/ \E url \in crawl[r].inflight : FetchErr(r, url)
  \/ \E k \in 1..BatchSize, v \in EmbedVectors : EmbedResolved(r, k, v)
  \/ \E k \in 1..BatchSize : EmbedRejected(r, k)
  \/ EmbedPaused(r)

\* The steps of a question.
AskStep(r) ==
  \/ MayArrive(r) /\ \E b \in BOOLEAN : AskStart(r, b)
  \/ \E v \in EmbedVectors : AskEmbedded(r, v)
  \/ AskAnswered(r)
  \/ AskFailed(r)

Next == \E r \in Reqs : IngestStep(r) \/ AskStep(r)

Spec == Init /\ [][Next]_vars

(***************************************************************************)
(* The requests that read and write the store, interleaved: file uploads,   *)
(* single-page uploads and questions.                                       *)
(***************************************************************************)
ConcNext ==
  \E r \in Reqs :
    \/ MayArrive(r) /\ \E up \in FileInputs : UploadFile(r, up)
    \/ MayArrive(r) /\ \E url \in WebsiteInputs : UploadWebsite(r, url)
    \/ WebsiteFetched(r)
    \/ WebsiteFetchFailed(r)
    \/ \E k \in 1..BatchSize, v \in EmbedVectors : EmbedResolved(r, k, v)
    \/ \E k \in 1..BatchSize : EmbedRejected(r, k)
    \/ EmbedPaused(r)
    \/ AskStep(r)

ConcSpec == Init /\ [][ConcNext]_vars

(***************************************************************************)
(* The ingestion specification: the server starts with a store loaded from  *)
(* DATA_FILE and handles one ingestion request.                             *)
(***************************************************************************)
MaxLoaded == 2
LoadedChunk(k, v) ==
  [id |-> FormatId(<<"TXT">>, 0, k), text |-> MkText("L", k), embedding |-> v]
LoadedStore(f) ==
  /\ CHUNKS = [k \in 1..Len(f) |-> LoadedChunk(k, f[k])]
  /\ disk = CHUNKS
  /\ now = 0
  /\ owner = [k \in 1..Len(f) |-> <<0, 0>>]
  /\ made = [k \in 1..Len(f) |-> MadeOf(<<"TXT">>, 0, k)]

\* A page whose title is a blank and whose body is empty: text, the join of
\* the title, the headings and the trimmed body text that are not "", is " ".
SiteBlank ==
  (Root :> [text |-> MkText("W", 1), body |-> MkText("root", 0), links |-> <<>>])

\* A direct call processText(text): the source is the default "file".  The
\* caller is suspended at await embedTextsBatch(chunks, 50).
TextInputs == { MkText("F", 0), MkText("W", 3), MkText("F", 1200) }
ProcessTextCall(r, text) ==
  /\ pc[r] = "idle"
  /\ kind' = [kind EXCEPT ![r] = "proccall"]
  /\ LET p == ProcBegin(text, <<"file">>, 0)
     IN  /\ proc' = [proc EXCEPT ![r] = p]
         /\ emb' = [emb EXCEPT ![r] = EmbedBegin(p.chunks, BatchSize)]
  /\ pc' = [pc EXCEPT ![r] = "embedding"]
  /\ UNCHANGED <<ckVars, storeVars, resp, provided, rejected, loop, arg, crawlVars,
                 askVars>>

\* embedTextsBatch([]) makes no request and returns []: processText goes on
\* from its await.
EmbedReturned(r) ==
  /\ pc[r] = "embedding"
  /\ emb[r].phase = "done"
  /\ FinishProcess(r, emb[r])
  /\ UNCHANGED <<ckVars, kind, provided, rejected, arg, crawlVars, askVars>>

\* "/" links to a and to a_0_0: the URL of the second page is what an id made
\* of the first page's URL looks like.
SiteUnderscore ==
  (Root :> Page("root", 1200, << <<"a">>, <<"a", "_", "0", "_", "0">> >>))
  @@ (Url("a") :> Page("a", 1200, <<>>))
  @@ (<<"s", "/", "a", "_", "0", "_", "0">> :> Page("a00", 1200, <<>>))

IngestInit ==
  /\ ChunkOff /\ ReqsIdle /\ EmbedOff /\ ProcOff /\ AskOff
  /\ \E n \in 0..MaxLoaded : LoadedStore([k \in 1..n |-> <<1, 0>>])
  /\ crawl = [r \in Reqs |-> NoCrawl]
  /\ site \in {SiteSmall, SiteBlank, SiteUnderscore}

IngestNext ==
  \/ IngestStep(1)
  \/ MayArrive(1) /\ \E t \in TextInputs : ProcessTextCall(1, t)
  \/ EmbedReturned(1)

IngestSpec == IngestInit /\ [][IngestNext]_vars

(***************************************************************************)
(* The ranking specification: the server starts with a store loaded from    *)
(* DATA_FILE and answers one question.                                      *)
(***************************************************************************)
MaxStore == 6
RankVectors == { <<1, 0>>, <<0, 1>>, <<3, 4>>, <<-1, 0>>, <<0, 0>> }

RankInit ==
  /\ ChunkOff
  /\ \E n \in 0..MaxStore : \E f \in [1..n -> RankVectors] : LoadedStore(f)
  /\ ReqsIdle
  /\ EmbedOff
  /\ ProcOff
  /\ CrawlOff
  /\ AskOff

RankNext ==
  \/ \E b \in BOOLEAN : AskStart(1, b)
  \/ \E v \in RankVectors : AskEmbedded(1, v)
  \/ AskAnswered(1)
  \/ AskFailed(1)

RankSpec == RankInit /\ [][RankNext]_vars

----------------------------------------------------------------------------
\* C8: for 0 <= O < S, a finished chunkText(T, S, O) holds the chunks that start
\* at the offsets 0, S-O, 2(S-O), ... below len(T) and no others, chunk j being
\* T[j(S-O) .. min(j(S-O)+S, len(T))): each is at most S long, every character
\* of T lies in a chunk, and the last chunk ends at len(T).
ExpectedCount(len, stride) == (len + stride - 1) \div stride
ChunkingCoverage ==
  (ckPc = "done" /\ 0 <= ckOverlap /\ ckOverlap < ckSize) =>
    LET len    == TLen(ckText)
        stride == ckSize - ckOverlap
        n      == Len(ckChunks)
    IN  /\ n = ExpectedCount(len, stride)
        /\ \A j \in 1..n :
              /\ ckChunks[j].doc = ckText.doc
              /\ ckChunks[j].lo = (j - 1) * stride
              /\ ckChunks[j].hi = Min((j - 1) * stride + ckSize, len)
              /\ TLen(ckChunks[j]) <= ckSize
              /\ (j - 1) * stride < len
        /\ \A p \in 0..(len - 1) :
              \E j \in 1..n : ckChunks[j].lo <= p /\ p < ckChunks[j].hi
        /\ (n > 0 => ckChunks[n].hi = len)
        /\ (ckText = MkText("A", 1200) /\ ckSize = 500 /\ ckOverlap = 100 =>
              /\ n = 3
              /\ <<TLen(ckChunks[1]), TLen(ckChunks[2]), TLen(ckChunks[3])>>
                   = <<500, 500, 400>>)

\* A finished call whose windows overlap and whose last window is cut short.
ChunkingCoverageWitness ==
  /\ ckPc = "done"
  /\ ckSize = 3 /\ ckOverlap = 1 /\ TLen(ckText) = 4
  /\ Len(ckChunks) = 2
  /\ ckChunks[2] = [doc |-> "T", lo |-> 2, hi |-> 4]

\* C9: every chunkText call on a non-empty text returns, also when
\* overlap >= size: each iteration of the loop leaves i larger than it found
\* it, so that i < text.length fails after at most text.length iterations.
ChunkerTerminates ==
  [][(ckPc = "loop" /\ ckPc' = "loop" /\ TLen(ckText) > 0) => ckI' > ckI]_vars

\* The same as a temporal property: the call comes to return.
ChunkerReturns == (TLen(ckText) > 0) => <>(ckPc = "done")

\* What holds of the code: the calls with overlap < size advance and return.
ChunkerTerminatesPositiveStride ==
  [][(ckPc = "loop" /\ ckPc' = "loop" /\ ckOverlap < ckSize) => ckI' > ckI]_vars

\* C7: the ranked list /ask builds has length min(5, |store|), is ordered by
\* non-increasing score, every chunk left out scores no higher than every
\* chunk kept, and chunks of equal score keep their store order.
Pos(id) == CHOOSE k \in 1..Len(CHUNKS) : CHUNKS[k].id = id
Geq(x, y) == ~IsNaN(x) /\ ~IsNaN(y) /\ ScoreDiffSign(x, y) >= 0
SameScore(x, y) == ~IsNaN(x) /\ ~IsNaN(y) /\ ScoreDiffSign(x, y) = 0
RankedWell(rk, q) ==
  /\ Len(rk) = Min(5, Len(CHUNKS))
  /\ \A k \in 1..Len(rk) : \E j \in 1..Len(CHUNKS) : rk[k] = WithScore(CHUNKS[j], q)
  /\ \A k, l \in 1..Len(rk) : k < l => rk[k].id # rk[l].id
  /\ \A k \in 1..(Len(rk) - 1) : Geq(rk[k].score, rk[k + 1].score)
  /\ \A j \in 1..Len(CHUNKS) :
        (\A k \in 1..Len(rk) : rk[k].id # CHUNKS[j].id) =>
          \A k \in 1..Len(rk) :
            Geq(rk[k].score, cosineSimilarity(q, CHUNKS[j].embedding))
  /\ \A k, l \in 1..Len(rk) :
        (k < l /\ SameScore(rk[k].score, rk[l].score)) => Pos(rk[k].id) < Pos(rk[l].id)
RankingCorrect ==
  \A r \in Reqs : pc[r] = "askChat" => RankedWell(ranked[r], qEmbed[r])

\* What holds of the code: the same, for a question and a store whose
\* embeddings are not all-zero vectors.
NonZero(v) == SumProd(v, v, 1) > 0
RankingCorrectNonZero ==
  \A r \in Reqs :
    (pc[r] = "askChat" /\ NonZero(qEmbed[r])
       /\ \A j \in 1..Len(CHUNKS) : NonZero(CHUNKS[j].embedding))
    => RankedWell(ranked[r], qEmbed[r])

\* C10: when no request fails, a finished embedTextsBatch(texts, batchSize)
\* holds exactly len(texts) vectors, the i-th being the vector the provider
\* returned for texts[i], whatever the order in which the requests completed.
EmbedOrderAndLength ==
  \A r \in Reqs :
    emb[r].phase = "done" =>
      /\ Len(emb[r].embeddings) = Len(emb[r].texts)
      /\ \A k \in 1..Len(emb[r].texts) :
            /\ ~Pending(emb[r].returned[k])
            /\ emb[r].embeddings[k] = emb[r].returned[k]

\* The consequence for the store: the embedding of every chunk a request has
\* stored is a vector the provider returned for that chunk's text.
StoredEmbeddingsOwn ==
  \A k \in 1..Len(CHUNKS) :
    owner[k] # <<0, 0>> => <<CHUNKS[k].text, CHUNKS[k].embedding>> \in provided

\* A finished call of two sub-batches, the last one short, in which two texts
\* got different vectors.
EmbedOrderWitness ==
  /\ emb[1].phase = "done"
  /\ Len(emb[1].texts) = 3 /\ emb[1].batchSize = 2
  /\ emb[1].embeddings = << <<0, 1>>, <<1, 0>>, <<0, 1>> >>

\* C3: the page list of a crawl never holds more than maxPages page records,
\* neither when crawlWebsite returns it nor later.
CrawlBound ==
  \A r \in Reqs : Len(crawl[r].pages) <= crawl[r].maxPages

\* What holds of the code: the list holds at most one record when it is
\* returned, and never more records than URLs were requested.
CrawlBoundAtReturn ==
  \A r \in Reqs :
    /\ (pc[r] = "done" /\ kind[r] = "crawlcall") => resp[r].pages <= 1
    /\ Len(crawl[r].pages) <= Len(crawl[r].requested)

\* C4: within one crawl, no fragment-stripped URL is requested more than once.
NoDuplicates(q) == \A j, k \in 1..Len(q) : j # k => q[j] # q[k]
VisitOnce ==
  \A r \in Reqs :
    /\ NoDuplicates(crawl[r].requested)
    /\ \A k \in 1..Len(crawl[r].requested) : "#" \notin Range(crawl[r].requested[k])

\* The cyclic site, crawled to its end: "/" and a link to each other, and a is
\* linked twice.
VisitOnceWitness ==
  /\ site = SiteCycle
  /\ crawl[1].inflight = {}
  /\ crawl[1].requested = <<Root, Url("a"), Url("b")>>
  /\ Len(crawl[1].pages) = 3

\* C5: every URL requested other than baseUrl is a link of a page fetched
\* before, resolved against that page's URL, and starts with baseUrl; no other
\* URL is requested or is the url of a page record.
Fetched(c) == { u \in c.visited : u \notin c.inflight /\ u \notin c.failed }
LinkedFrom(c, u, onBase) ==
  \E q \in Fetched(c) : \E k \in 1..Len(site[q].links) :
    /\ site[q].links[k] # <<>>
    /\ u = UrlResolve(IF onBase THEN c.base ELSE q, SplitHash(site[q].links[k]))
ScopeOf(c, onBase) ==
  /\ \A k \in 1..Len(c.requested) :
        \/ k = 1 /\ c.requested[k] = c.base
        \/ /\ StartsWith(c.requested[k], c.base)
           /\ LinkedFrom(c, c.requested[k], onBase)
  /\ \A k \in 1..Len(c.pages) : c.pages[k].url \in Range(c.requested)
ScopeRestriction == \A r \in Reqs : ScopeOf(crawl[r], FALSE)

\* What holds of the code: the same with every link resolved against baseUrl,
\* whatever page holds it.
ScopeRestrictionOnBase == \A r \in Reqs : ScopeOf(crawl[r], TRUE)

\* The page that links to /b and to another host, both out of scope, and to
\* ab, in scope by the prefix test alone, has been crawled to the end.
ScopeWitness ==
  /\ site = SitePrefix
  /\ crawl[1].inflight = {}
  /\ crawl[1].requested = <<Url("a"), <<"s", "/", "a", "b">> >>
  /\ Url("b") \notin crawl[1].visited

\* C6: when every fetch succeeds and at most maxPages in-scope pages are
\* reachable from baseUrl, the crawl comes to have no fetch outstanding and has
\* then requested exactly the reachable in-scope pages, each once.
\* The pages a page links to are its links resolved against its own URL.
LinksOf(base, u, onBase) ==
  IF u \in DOMAIN site
  THEN { UrlResolve(IF onBase THEN base ELSE u, SplitHash(l)) :
           l \in Range(site[u].links) \ {<<>>} }
  ELSE {}
RECURSIVE ReachFrom(_, _, _)
ReachFrom(base, S, onBase) ==
  LET T == S \cup { v \in UNION { LinksOf(base, u, onBase) : u \in S } :
                      StartsWith(v, base) }
  IN  IF T = S THEN S ELSE ReachFrom(base, T, onBase)
Reachable(c, onBase) == ReachFrom(c.base, {c.base}, onBase)
CrawlQuiet(c) == c.inflight = {}
CrawlExact(c, onBase) ==
  /\ Range(c.requested) = Reachable(c, onBase)
  /\ NoDuplicates(c.requested)
CrawlComplete(c, onBase) ==
  ( /\ CrawlQuiet(c)
    /\ c.failed = {}
    /\ Cardinality(Reachable(c, onBase)) <= c.maxPages )
  => CrawlExact(c, onBase)
CrawlCompleteness ==
  /\ <>CrawlQuiet(crawl[1])
  /\ []CrawlComplete(crawl[1], FALSE)

\* What holds of the code: the crawl comes to have no fetch outstanding, and
\* has then requested exactly the pages reachable when every link is resolved
\* against baseUrl.
CrawlCompletenessOnBase ==
  /\ <>CrawlQuiet(crawl[1])
  /\ []CrawlComplete(crawl[1], TRUE)

\* The cyclic site with maxPages = 3: no fetch failed, none is outstanding.
CrawlCompletenessWitness ==
  /\ site = SiteCycle
  /\ crawl[1].maxPages = 3
  /\ crawl[1].failed = {}
  /\ crawl[1].inflight = {}
  /\ Range(crawl[1].requested) = {Root, Url("a"), Url("b")}

\* C1: when an embedding request of a processText call is rejected, the call
\* fails (its handler answers 500), the step leaves CHUNKS and the snapshot as
\* they were, and no chunk of that call is ever in the store or the snapshot.
Owned(r) == { k \in 1..Len(CHUNKS) : owner[k][1] = r }
SnapshotOfStore ==
  /\ Len(disk) <= Len(CHUNKS)
  /\ \A k \in 1..Len(disk) : disk[k] = CHUNKS[k]
NothingOfRejectedCalls ==
  /\ SnapshotOfStore
  /\ \A k \in 1..Len(CHUNKS) : owner[k] \notin rejected
  /\ \A rc \in rejected : pc[rc[1]] = "done" /\ resp[rc[1]].status = 500
\* The store and the snapshot are what the server loaded when it started.
StoreAsLoaded ==
  /\ disk = CHUNKS
  /\ \A k \in 1..Len(CHUNKS) :
        owner[k] = <<0, 0>> /\ CHUNKS[k] = LoadedChunk(k, <<1, 0>>)
IngestionAtomicity ==
  /\ []NothingOfRejectedCalls
  /\ []((<<1, 0>> \in rejected /\ \A q \in Reqs \ {1} : pc[q] = "idle") => StoreAsLoaded)
  /\ [][rejected' # rejected => (CHUNKS' = CHUNKS /\ disk' = disk)]_vars

\* A two-chunk text whose first request was answered and whose second was
\* rejected, while the store holds another request's chunks.
IngestionAtomicityWitness ==
  \E r \in Reqs :
    /\ <<r, 0>> \in rejected
    /\ Len(emb[r].texts) = 2
    /\ ~Pending(emb[r].returned[1])
    /\ Len(CHUNKS) > 0
    /\ disk = CHUNKS

\* C2: every ingestion request that has been answered either succeeded, and
\* the chunk count of its response is the number of chunks it appended and
\* persisted, or failed, and it appended and persisted none.
Ingestion(r) == kind[r] \in {"file", "website", "full"}
NoPartialSuccess ==
  \A r \in Reqs :
    (pc[r] = "done" /\ Ingestion(r)) =>
      /\ SnapshotOfStore /\ Len(disk) = Len(CHUNKS)
      /\ \/ resp[r].status = 200 /\ resp[r].chunks = Cardinality(Owned(r))
         \/ resp[r].status # 200 /\ Owned(r) = {}

\* What holds of the code: the same for /upload-file and /upload-website, which
\* call processText once.
NoPartialSuccessSingleCall ==
  \A r \in Reqs :
    (pc[r] = "done" /\ kind[r] \in {"file", "website"}) =>
      \/ resp[r].status = 200 /\ resp[r].chunks = Cardinality(Owned(r))
      \/ resp[r].status # 200 /\ Owned(r) = {}

\* C11: a processText call on a text that is empty or blank makes no chunk and
\* no embedding request, signals an error to its caller (a route answers 400),
\* and leaves the store and the snapshot as they were.
Called(r) == proc[r] # NoProc
EmptyInputRejected ==
  \A r \in Reqs :
    (Called(r) /\ IsBlank(proc[r].text)) =>
      /\ proc[r].chunks = <<>>
      /\ emb[r].texts = <<>>
      /\ Owned(r) = {}
      /\ pc[r] = "done" => resp[r].status = 400

\* What holds of the code: /upload-file and /upload-website answer 400 before
\* they call processText on such a text, and an empty text makes no chunk and
\* no request and leaves the store as it was.
EmptyInputRejectedByRoutes ==
  \A r \in Reqs :
    /\ (Called(r) /\ kind[r] \in {"file", "website"}) => ~IsBlank(proc[r].text)
    /\ (Called(r) /\ TLen(proc[r].text) = 0) =>
          proc[r].chunks = <<>> /\ emb[r].texts = <<>> /\ Owned(r) = {}

\* /upload-file has answered 400 to a file of blanks.
EmptyInputWitness ==
  /\ kind[1] = "file" /\ pc[1] = "done" /\ resp[1].status = 400
  /\ ~Called(1) /\ disk = CHUNKS

\* C12: the store before a step is a prefix of the store after it, so that no
\* chunk is removed, reordered or changed, and a step of /ask leaves the store
\* and the snapshot as they were.
IsPrefix(a, b) == Len(a) <= Len(b) /\ SubSeq(b, 1, Len(a)) = a
AskStepOf(r) == kind'[r] = "ask" /\ pc'[r] # pc[r]
AppendOnly ==
  [][ /\ IsPrefix(CHUNKS, CHUNKS')
      /\ (\E r \in Reqs : AskStepOf(r)) => (CHUNKS' = CHUNKS /\ disk' = disk) ]_vars

\* A question has been answered from the two chunks another request stored.
AppendOnlyWitness ==
  \E r \in Reqs :
    /\ kind[r] = "ask" /\ pc[r] = "done" /\ resp[r].status = 200
    /\ Len(resp[r].sources) = 2
    /\ Len(CHUNKS) = 2

\* C13: a URL whose fetch failed has no page record and none of its links is
\* followed; the step in which it fails changes nothing else of the crawl, so
\* the other fetches go on and every page fetched with a text has its record;
\* crawlWebsite returns its list (it does not throw) and the crawl comes to
\* have no fetch outstanding.
HasRecord(c, u) == \E k \in 1..Len(c.pages) : c.pages[k].url = u
FailureKeptLocal(c) ==
  /\ \A u \in c.failed : ~HasRecord(c, u)
  /\ \A u \in Fetched(c) : TLen(site[u].text) > 0 => HasRecord(c, u)
  /\ \A k \in 2..Len(c.requested) : LinkedFrom(c, c.requested[k], TRUE)
FailureStep(c, d) ==
  d.failed # c.failed =>
    /\ d.pages = c.pages /\ d.requested = c.requested /\ d.visited = c.visited
    /\ \E u \in c.inflight : d.inflight = c.inflight \ {u} /\ d.failed = c.failed \cup {u}
FetchFailureLocal ==
  /\ [](\A r \in Reqs : FailureKeptLocal(crawl[r]))
  /\ []((crawl[1].returned /\ kind[1] = "crawlcall") =>
          (pc[1] = "done" /\ resp[1].status = 200))
  /\ [][\A r \in Reqs : FailureStep(crawl[r], crawl'[r])]_vars
  /\ <>(crawl[1].returned /\ CrawlQuiet(crawl[1]))

\* On the cyclic site the fetch of a has failed and the crawl has gone on to
\* the end: "/" and b have their records.
FetchFailureWitness ==
  /\ site = SiteCycle
  /\ crawl[1].failed = {Url("a")}
  /\ crawl[1].inflight = {}
  /\ crawl[1].returned
  /\ Len(crawl[1].pages) = 2

\* C14: the chunks one processText call stored have pairwise distinct ids,
\* and two stored chunks have the same id only if their ids were made of the
\* same source label and the same timestamp.
SameCall(j, k) == owner[j] = owner[k] /\ owner[j] # <<0, 0>>
IdUniqueness ==
  \A j, k \in 1..Len(CHUNKS) :
    j # k =>
      /\ SameCall(j, k) => CHUNKS[j].id # CHUNKS[k].id
      /\ CHUNKS[j].id = CHUNKS[k].id =>
            (made[j].source = made[k].source /\ made[j].stamp = made[k].stamp)

\* A file of two chunks was stored in the millisecond the loaded chunks were
\* made in, under their source label: its second chunk has the id of a loaded
\* chunk, and its two chunks have different ids.
IdUniquenessWitness ==
  \E j, k \in 1..Len(CHUNKS) :
    /\ j < k /\ CHUNKS[j].id = CHUNKS[k].id
    /\ owner[j] = <<0, 0>> /\ owner[k] = <<1, 0>>
    /\ SameCall(k - 1, k)

\* C15: when /ask ranks (it has not rejected the question), the score of every
\* chunk of the store is a number, and it is 0 when the question's vector or
\* the chunk's is all-zero: no NaN enters the sort.
ScoreOf(r, j) == cosineSimilarity(qEmbed[r], CHUNKS[j].embedding)
ZeroVectorHandled ==
  \A r \in Reqs :
    pc[r] = "askChat" =>
      \A j \in 1..Len(CHUNKS) :
        /\ ~IsNaN(ScoreOf(r, j))
        /\ (~NonZero(qEmbed[r]) \/ ~NonZero(CHUNKS[j].embedding)) =>
              ScoreOf(r, j).num = 0

\* What holds of the code: a score is NaN exactly when one of the two vectors
\* is all-zero, and such a question is ranked, not rejected.
NaNOnlyFromZeroVector ==
  \A r \in Reqs :
    pc[r] = "askChat" =>
      \A j \in 1..Len(CHUNKS) :
        IsNaN(ScoreOf(r, j)) <=>
          (~NonZero(qEmbed[r]) \/ ~NonZero(CHUNKS[j].embedding))

\* C16: whatever the interleaving of the requests, the snapshot is the whole
\* store after every step (the append and the persist of a processText call
\* are one step), the chunks of one call lie next to each other in the order
\* of its chunks, and every request answered with a count has that many
\* chunks in the snapshot.
InChunkOrder(k) ==
  /\ made[k].index = Cardinality({ j \in 1..(k - 1) : owner[j] = owner[k] })
  /\ \A r \in Reqs :
        (owner[k] = <<r, proc[r].call>>) =>
          CHUNKS[k].text = proc[r].chunks[made[k].index + 1]
NoLostUpdate ==
  /\ disk = CHUNKS
  /\ \A j, k \in 1..Len(CHUNKS) :
        (j < k /\ owner[j] = owner[k]) => \A m \in j..k : owner[m] = owner[j]
  /\ \A k \in 1..Len(CHUNKS) : InChunkOrder(k)
  /\ \A r \in Reqs :
        (pc[r] = "done" /\ resp[r].status = 200 /\ kind[r] \in {"file", "website"}) =>
          /\ resp[r].chunks = Len(proc[r].chunks)
          /\ Cardinality({ k \in 1..Len(disk) : owner[k] = <<r, 0>> }) = resp[r].chunks

\* Request 1 uploaded a file of two chunks and request 2 a file of one; the
\* embedding of request 2 came first, so its chunk is stored first.
NoLostUpdateWitness ==
  /\ Len(CHUNKS) = 3
  /\ owner = << <<2, 0>>, <<1, 0>>, <<1, 0>> >>
  /\ pc[1] = "done" /\ pc[2] = "done"

\* C17: once crawlWebsite has returned its list, no fetch of that crawl is
\* outstanding, and a /upload-full-website request that has answered has
\* ingested, and counted in pagesIndexed, every page record of its crawl.
CrawlFinalOnReturn ==
  \A r \in Reqs :
    /\ crawl[r].returned => crawl[r].inflight = {}
    /\ (kind[r] = "full" /\ pc[r] = "done" /\ resp[r].status = 200) =>
          (resp[r].pages = Len(crawl[r].pages) /\ loop[r].idx = Len(crawl[r].pages))

\* What holds of the code: the answer counts the page records the list held
\* when the loop over it ended, and each of them was ingested.
PagesCountedAtResponse ==
  \A r \in Reqs :
    (kind[r] = "full" /\ pc[r] = "done" /\ resp[r].status = 200) =>
      /\ resp[r].pages = loop[r].idx
      /\ resp[r].pages <= Len(crawl[r].pages)
      /\ \A k \in 1..resp[r].pages :
            \E j \in 1..Len(CHUNKS) :
              owner[j] = <<r, k - 1>> /\ made[j].source = crawl[r].pages[k].url

\* A request that has answered while its crawl went on to collect a page
\* record the answer does not count.
LatePageWitness ==
  /\ kind[1] = "full" /\ pc[1] = "done" /\ resp[1].status = 200
  /\ crawl[1].returned
  /\ resp[1].pages < Len(crawl[1].pages)

\* C18: within one embedTextsBatch call the requests outstanding are those of
\* one sub-batch, at most batchSize of them; every text of an earlier sub-batch
\* has its answer and no text of a later one has been sent; and the call moves
\* to the next sub-batch only in the step that ends the pause, which starts
\* only when every request of the sub-batch has completed.
InFlight(e) ==
  IF e.phase = "batch" THEN { e.i + k : k \in { j \in 1..Len(e.res) : Pending(e.res[j]) } }
  ELSE {}
Paced(e) ==
  /\ Cardinality(InFlight(e)) <= e.batchSize
  /\ e.phase \in {"batch", "pause"} =>
        /\ e.i % e.batchSize = 0
        /\ e.i < Len(e.texts)
        /\ Len(e.res) = Min(e.batchSize, Len(e.texts) - e.i)
        /\ \A k \in 1..Len(e.texts) :
              /\ k <= e.i => ~Pending(e.returned[k])
              /\ k > e.i + Len(e.res) => Pending(e.returned[k])
              /\ (k > e.i /\ k <= e.i + Len(e.res)) => e.returned[k] = e.res[k - e.i]
  /\ e.phase = "pause" => \A k \in 1..Len(e.res) : ~Pending(e.res[k])
SubBatchPacing ==
  [][/\ Paced(emb[1]) /\ Paced(emb[1]')
     /\ (emb[1].i' # emb[1].i \/ InFlight(emb[1]') \ InFlight(emb[1]) # {}) =>
           /\ emb[1].phase = "pause"
           /\ emb[1].i' = emb[1].i + emb[1].batchSize
           /\ InFlight(emb[1]) = {}]_vars

\* The second sub-batch of three texts' worth or more, one answer in and one
\* request outstanding.
SubBatchPacingWitness ==
  /\ emb[1].phase = "batch"
  /\ emb[1].batchSize = 2 /\ emb[1].i = 2 /\ Len(emb[1].texts) = 4
  /\ ~Pending(emb[1].res[1]) /\ Pending(emb[1].res[2])

====
